---------------------------- MODULE Spec2Model ----------------------------
(***************************************************************************)
(* UnicodeConvAtl: ToUtf8 (CStringW -> CStringA) and ToUtf16 (CStringA ->  *)
(* CStringW), src/UnicodeConvAtl/UnicodeConvAtl.h.                         *)
(*                                                                         *)
(* Both functions wrap the platform codec (::WideCharToMultiByte and       *)
(* ::MultiByteToWideChar with CP_UTF8) in the same protocol: empty-input   *)
(* fast path, a measure call, GetBuffer, a fill call, ReleaseBuffer.  The  *)
(* wrapper is translated from the header.  The codec itself is not part of *)
(* the repository: it is modelled by the UTF-8/UTF-16 rules the            *)
(* specification states and the documented contract of the two calls.      *)
(*                                                                         *)
(* Code units are integers: 0..65535 for UTF-16, 0..255 for UTF-8.         *)
(* Strings are sequences of code units.                                    *)
(***************************************************************************)
EXTENDS Integers, Sequences, FiniteSets

(***************************************************************************)
(* Bounds of the model.                                                    *)
(***************************************************************************)
MaxUtf16Len == 3
MaxUtf8Len == 4

\* Sample UTF-16 code units: both ends of every encoded-length range, the
\* kanji U+5B66 of the tests, and high/low surrogates (D83D DE00 = U+1F600).
Utf16Units ==
    { 65, 127, 128, 2047, 2048, 23398, 65535,
      55296, 55357, 56319, 56320, 56832, 57343 }

\* Sample UTF-8 bytes: ASCII, continuation bytes on both sides of the
\* second-byte limits (80, 8F | 90, 9F | A0, BF), and lead bytes C0
\* (overlong), C2, E0, ED, F0, F4, F5 (beyond U+10FFFF).
Utf8Units ==
    { 65, 128, 143, 144, 159, 160, 191, 192, 194, 224, 237, 240, 244, 245 }

Utf16Inputs == UNION { [1..n -> Utf16Units] : n \in 0..MaxUtf16Len }
Utf8Inputs == UNION { [1..n -> Utf8Units] : n \in 0..MaxUtf8Len }

\* What a buffer cell holds before anything is written to it.
UninitUnits == { 0, 205 }

(***************************************************************************)
(* The platform codec.                                                     *)
(***************************************************************************)
IsHighSurrogate(u) == u \in 55296..56319
IsLowSurrogate(u) == u \in 56320..57343
IsSurrogate(u) == u \in 55296..57343
IsContinuation(b) == b \in 128..191

\* The UTF-8 encoding of one code point.
Utf8Encode(cp) ==
    IF cp < 128 THEN << cp >>
    ELSE IF cp < 2048 THEN << 192 + (cp \div 64), 128 + (cp % 64) >>
    ELSE IF cp < 65536
      THEN << 224 + (cp \div 4096), 128 + ((cp \div 64) % 64), 128 + (cp % 64) >>
      ELSE << 240 + (cp \div 262144), 128 + ((cp \div 4096) % 64),
              128 + ((cp \div 64) % 64), 128 + (cp % 64) >>

\* The UTF-16 encoding of one code point.
Utf16Encode(cp) ==
    IF cp < 65536 THEN << cp >>
    ELSE << 55296 + ((cp - 65536) \div 1024), 56320 + ((cp - 65536) % 1024) >>

\* The code point of a surrogate pair.
CombineSurrogates(hi, lo) == 65536 + (hi - 55296) * 1024 + (lo - 56320)

\* One decoding step of UTF-16 at position i: units consumed, code point,
\* and whether the step met an unpaired surrogate.
Utf16DecodeAt(s, i) ==
    IF IsHighSurrogate(s[i]) /\ i < Len(s) /\ IsLowSurrogate(s[i + 1])
      THEN [ok |-> TRUE, len |-> 2, cp |-> CombineSurrogates(s[i], s[i + 1])]
      ELSE IF IsSurrogate(s[i])
        THEN [ok |-> FALSE, len |-> 1, cp |-> 65533]
        ELSE [ok |-> TRUE, len |-> 1, cp |-> s[i]]

\* One decoding step of UTF-8 at position i: bytes consumed, code point, and
\* whether the bytes there are a valid sequence (shortest form, not a
\* surrogate, at most U+10FFFF, every continuation byte present).
Utf8DecodeAt(u, i) ==
    LET b == u[i]
        Cont(j) == j <= Len(u) /\ IsContinuation(u[j])
        Low(j) == u[j] - 128
        bad == [ok |-> FALSE, len |-> 1, cp |-> 65533]
    IN  IF b < 128 THEN [ok |-> TRUE, len |-> 1, cp |-> b]
        ELSE IF b \in 192..223 /\ Cont(i + 1)
          THEN LET cp == (b - 192) * 64 + Low(i + 1)
               IN  IF cp >= 128 THEN [ok |-> TRUE, len |-> 2, cp |-> cp] ELSE bad
        ELSE IF b \in 224..239 /\ Cont(i + 1) /\ Cont(i + 2)
          THEN LET cp == (b - 224) * 4096 + Low(i + 1) * 64 + Low(i + 2)
               IN  IF cp >= 2048 /\ ~IsSurrogate(cp)
                     THEN [ok |-> TRUE, len |-> 3, cp |-> cp] ELSE bad
        ELSE IF b \in 240..247 /\ Cont(i + 1) /\ Cont(i + 2) /\ Cont(i + 3)
          THEN LET cp == (b - 240) * 262144 + Low(i + 1) * 4096
                           + Low(i + 2) * 64 + Low(i + 3)
               IN  IF cp >= 65536 /\ cp <= 1114111
                     THEN [ok |-> TRUE, len |-> 4, cp |-> cp] ELSE bad
        ELSE bad

RECURSIVE Utf16Valid(_, _)
Utf16Valid(s, i) ==
    IF i > Len(s) THEN TRUE
    ELSE LET d == Utf16DecodeAt(s, i) IN d.ok /\ Utf16Valid(s, i + d.len)

RECURSIVE Utf16Transcode(_, _)
\* UTF-16 to UTF-8 from position i; without WC_ERR_INVALID_CHARS an unpaired
\* surrogate is replaced by U+FFFD.
Utf16Transcode(s, i) ==
    IF i > Len(s) THEN << >>
    ELSE LET d == Utf16DecodeAt(s, i)
         IN  Utf8Encode(d.cp) \o Utf16Transcode(s, i + d.len)

RECURSIVE Utf8Valid(_, _)
Utf8Valid(u, i) ==
    IF i > Len(u) THEN TRUE
    ELSE LET d == Utf8DecodeAt(u, i) IN d.ok /\ Utf8Valid(u, i + d.len)

RECURSIVE Utf8Transcode(_, _)
\* UTF-8 to UTF-16 from position i; without MB_ERR_INVALID_CHARS what is
\* invalid is replaced by U+FFFD (here one per invalid byte).
Utf8Transcode(u, i) ==
    IF i > Len(u) THEN << >>
    ELSE LET d == Utf8DecodeAt(u, i)
         IN  Utf16Encode(d.cp) \o Utf8Transcode(u, i + d.len)

CodecFailure == [ret |-> 0, written |-> << >>]

\* The two modes of a codec call on the converted text: size 0 asks for the
\* required size and writes nothing; otherwise the text is written if it
\* fits and the call fails (ERROR_INSUFFICIENT_BUFFER) if it does not.
CodecDeliver(converted, size) ==
    IF size = 0 THEN [ret |-> Len(converted), written |-> << >>]
    ELSE IF Len(converted) > size THEN CodecFailure
    ELSE [ret |-> Len(converted), written |-> converted]

\* ::WideCharToMultiByte(CP_UTF8, flags, src, cchWideChar, dst, cbMultiByte,
\* nullptr, nullptr): the value returned and the bytes written to dst.
WideCharToMultiByte(flags, src, cchWideChar, cbMultiByte) ==
    LET s == SubSeq(src, 1, cchWideChar)
    IN  IF cchWideChar = 0 THEN CodecFailure
        ELSE IF "WC_ERR_INVALID_CHARS" \in flags /\ ~Utf16Valid(s, 1)
          THEN CodecFailure
        ELSE CodecDeliver(Utf16Transcode(s, 1), cbMultiByte)

\* ::MultiByteToWideChar(CP_UTF8, flags, src, cbMultiByte, dst, cchWideChar):
\* the value returned and the code units written to dst.
MultiByteToWideChar(flags, src, cbMultiByte, cchWideChar) ==
    LET u == SubSeq(src, 1, cbMultiByte)
    IN  IF cbMultiByte = 0 THEN CodecFailure
        ELSE IF "MB_ERR_INVALID_CHARS" \in flags /\ ~Utf8Valid(u, 1)
          THEN CodecFailure
        ELSE CodecDeliver(Utf8Transcode(u, 1), cchWideChar)

(***************************************************************************)
(* CString: GetBuffer(n) gives a writable buffer of n cells, ReleaseBuffer *)
(* (n) makes the first n cells the string.                                 *)
(***************************************************************************)
\* The buffer of `capacity` cells after a codec call wrote `written` from
\* its start; cells not written hold g.  A write longer than the capacity
\* shows as a buffer longer than the capacity.
BufferAfterWrite(capacity, written, g) ==
    written \o [i \in 1..(IF capacity > Len(written) THEN capacity - Len(written) ELSE 0) |-> g]

ReleaseBuffer(buffer, newLength) ==
    SubSeq(buffer, 1, IF newLength < Len(buffer) THEN newLength ELSE Len(buffer))

(***************************************************************************)
(* The wrapper's own choices, one definition per place in the header.      *)
(***************************************************************************)
\* Faulty variant: the flag is dropped, so the codec substitutes U+FFFD.
ToUtf8_kFlags_Dropped == { }
\* Line 101.
ToUtf8_kFlags == { "WC_ERR_INVALID_CHARS" }
\* Line 171.
ToUtf16_kFlags == { "MB_ERR_INVALID_CHARS" }

\* Faulty variant: the fast path is missing.
ToUtf8_IsEmpty_Missing(utf16Arg) == FALSE
\* Line 94.
ToUtf8_IsEmpty(utf16Arg) == Len(utf16Arg) = 0
\* Line 164.
ToUtf16_IsEmpty(utf8Arg) == Len(utf8Arg) = 0

\* Line 115.
ToUtf8_MeasureFailed(measured) == measured = 0
\* Faulty variant: the measure call's result is not checked.
ToUtf16_MeasureFailed_Unchecked(measured) == FALSE
\* Line 184.
ToUtf16_MeasureFailed(measured) == measured = 0

\* Line 123: utf8.GetBuffer(utf8Length).
ToUtf8_GetBufferLength(srcLength, measured) == measured
\* Faulty variant: one cell short.
ToUtf16_GetBufferLength_Short(srcLength, measured) == measured - 1
\* Line 192: utf16.GetBuffer(utf8Length), the length of the source.
ToUtf16_GetBufferLength(srcLength, measured) == srcLength

\* Faulty variant: the source length is passed as the destination size.
ToUtf8_FillSize_Source(srcLength, measured) == srcLength
\* Line 133: cbMultiByte = utf8Length.
ToUtf8_FillSize(srcLength, measured) == measured
\* Line 202: cchWideChar = utf16Length.
ToUtf16_FillSize(srcLength, measured) == measured

\* Faulty variant: a count other than the measured one is an error.
ToUtf8_FillFailed_Mismatch(res, measured) == res # measured
\* Line 136: result == 0.
ToUtf8_FillFailed(res, measured) == res = 0
\* Line 204: result == 0.
ToUtf16_FillFailed(res, measured) == res = 0

\* Faulty variant: the string is released at the source's length.
ToUtf8_ReleaseLength_Source(srcLength, measured) == srcLength
\* Line 143: utf8.ReleaseBuffer(utf8Length).
ToUtf8_ReleaseLength(srcLength, measured) == measured
\* Faulty variant: the string is released at the source's length.
ToUtf16_ReleaseLength_Source(srcLength, measured) == srcLength
\* Line 211: utf16.ReleaseBuffer(utf16Length).
ToUtf16_ReleaseLength(srcLength, measured) == measured

(***************************************************************************)
(* State.                                                                  *)
(***************************************************************************)
VARIABLES
    pc,          \* "idle", "measured", "filled", "returned", "thrown"
    fn,          \* the function running or last run: "none", "ToUtf8", "ToUtf16"
    leg,         \* 0 before any call, 1 in the first call, 2 in the call made on its result
    arg0,        \* the argument of the first call
    utf16,       \* the CStringW: ToUtf8's parameter, ToUtf16's result
    utf8,        \* the CStringA: ToUtf16's parameter, ToUtf8's result
    utf16Length, \* the local of that name
    utf8Length,  \* the local of that name
    capacity,    \* the length passed to GetBuffer
    fillSize,    \* the destination size passed to the fill call
    buffer,      \* the destination buffer after the fill call
    result,      \* the value the fill call returned
    codecCalls,  \* codec calls made by the running call
    thrownAt     \* "none", "measure", "fill": where AtlThrowLastWin32 was called

vars == << pc, fn, leg, arg0, utf16, utf8, utf16Length, utf8Length, capacity,
           fillSize, buffer, result, codecCalls, thrownAt >>

Init ==
    /\ pc = "idle"
    /\ fn = "none"
    /\ leg = 0
    /\ arg0 = << >>
    /\ utf16 = << >>
    /\ utf8 = << >>
    /\ utf16Length = 0
    /\ utf8Length = 0
    /\ capacity = 0
    /\ fillSize = 0
    /\ buffer = << >>
    /\ result = 0
    /\ codecCalls = 0
    /\ thrownAt = "none"

(***************************************************************************)
(* ToUtf8                                                                  *)
(***************************************************************************)
\* Lines 91-119: entry, the empty-input fast path, the measure call and its
\* error check.
ToUtf8_Enter(arg) ==
    /\ fn' = "ToUtf8"
    /\ utf16' = arg
    /\ utf8' = << >>
    /\ capacity' = 0
    /\ fillSize' = 0
    /\ buffer' = << >>
    /\ result' = 0
    /\ IF ToUtf8_IsEmpty(arg)
         THEN /\ pc' = "returned"
              /\ utf16Length' = 0
              /\ utf8Length' = 0
              /\ codecCalls' = 0
              /\ thrownAt' = "none"
         ELSE LET m == WideCharToMultiByte(ToUtf8_kFlags, arg, Len(arg), 0)
              IN  /\ utf16Length' = Len(arg)
                  /\ utf8Length' = m.ret
                  /\ codecCalls' = 1
                  /\ IF ToUtf8_MeasureFailed(m.ret)
                       THEN pc' = "thrown" /\ thrownAt' = "measure"
                       ELSE pc' = "measured" /\ thrownAt' = "none"

\* A caller converts a UTF-16 string.
ToUtf8_Call ==
    /\ pc = "idle"
    /\ \E arg \in Utf16Inputs :
         /\ arg0' = arg
         /\ leg' = 1
         /\ ToUtf8_Enter(arg)

\* A caller converts back what ToUtf16 returned.
ToUtf8_CallBack ==
    /\ pc = "returned"
    /\ fn = "ToUtf16"
    /\ leg = 1
    /\ leg' = 2
    /\ arg0' = arg0
    /\ ToUtf8_Enter(utf16)

\* Lines 121-135 with the fill call returning f.
ToUtf8_FillWith(f, g) ==
    /\ pc = "measured"
    /\ fn = "ToUtf8"
    /\ capacity' = ToUtf8_GetBufferLength(utf16Length, utf8Length)
    /\ fillSize' = ToUtf8_FillSize(utf16Length, utf8Length)
    /\ buffer' = BufferAfterWrite(capacity', f.written, g)
    /\ result' = f.ret
    /\ codecCalls' = codecCalls + 1
    /\ pc' = "filled"
    /\ UNCHANGED << fn, leg, arg0, utf16, utf8, utf16Length, utf8Length, thrownAt >>

\* Lines 121-135: GetBuffer and the fill call.
ToUtf8_Fill ==
    \E g \in UninitUnits :
        ToUtf8_FillWith(
            WideCharToMultiByte(ToUtf8_kFlags, utf16, utf16Length,
                                ToUtf8_FillSize(utf16Length, utf8Length)), g)

\* Lines 136-153: the fill call's error check, ReleaseBuffer, return.
ToUtf8_Finish ==
    /\ pc = "filled"
    /\ fn = "ToUtf8"
    /\ IF ToUtf8_FillFailed(result, utf8Length)
         THEN /\ pc' = "thrown"
              /\ thrownAt' = "fill"
              /\ utf8' = utf8
         ELSE /\ pc' = "returned"
              /\ thrownAt' = thrownAt
              /\ utf8' = ReleaseBuffer(buffer, ToUtf8_ReleaseLength(utf16Length, utf8Length))
    /\ UNCHANGED << fn, leg, arg0, utf16, utf16Length, utf8Length, capacity,
                    fillSize, buffer, result, codecCalls >>

(***************************************************************************)
(* ToUtf16                                                                 *)
(***************************************************************************)
\* Lines 161-188: entry, the empty-input fast path, the measure call and its
\* error check.
ToUtf16_Enter(arg) ==
    /\ fn' = "ToUtf16"
    /\ utf8' = arg
    /\ utf16' = << >>
    /\ capacity' = 0
    /\ fillSize' = 0
    /\ buffer' = << >>
    /\ result' = 0
    /\ IF ToUtf16_IsEmpty(arg)
         THEN /\ pc' = "returned"
              /\ utf16Length' = 0
              /\ utf8Length' = 0
              /\ codecCalls' = 0
              /\ thrownAt' = "none"
         ELSE LET m == MultiByteToWideChar(ToUtf16_kFlags, arg, Len(arg), 0)
              IN  /\ utf8Length' = Len(arg)
                  /\ utf16Length' = m.ret
                  /\ codecCalls' = 1
                  /\ IF ToUtf16_MeasureFailed(m.ret)
                       THEN pc' = "thrown" /\ thrownAt' = "measure"
                       ELSE pc' = "measured" /\ thrownAt' = "none"

\* A caller converts a UTF-8 string.
ToUtf16_Call ==
    /\ pc = "idle"
    /\ \E arg \in Utf8Inputs :
         /\ arg0' = arg
         /\ leg' = 1
         /\ ToUtf16_Enter(arg)

\* A caller converts back what ToUtf8 returned
\* (TestStringsWithJapaneseKanji).
ToUtf16_CallBack ==
    /\ pc = "returned"
    /\ fn = "ToUtf8"
    /\ leg = 1
    /\ leg' = 2
    /\ arg0' = arg0
    /\ ToUtf16_Enter(utf8)

\* Lines 190-203 with the fill call returning f.
ToUtf16_FillWith(f, g) ==
    /\ pc = "measured"
    /\ fn = "ToUtf16"
    /\ capacity' = ToUtf16_GetBufferLength(utf8Length, utf16Length)
    /\ fillSize' = ToUtf16_FillSize(utf8Length, utf16Length)
    /\ buffer' = BufferAfterWrite(capacity', f.written, g)
    /\ result' = f.ret
    /\ codecCalls' = codecCalls + 1
    /\ pc' = "filled"
    /\ UNCHANGED << fn, leg, arg0, utf16, utf8, utf16Length, utf8Length, thrownAt >>

\* Lines 190-203: GetBuffer and the fill call.
ToUtf16_Fill ==
    \E g \in UninitUnits :
        ToUtf16_FillWith(
            MultiByteToWideChar(ToUtf16_kFlags, utf8, utf8Length,
                                ToUtf16_FillSize(utf8Length, utf16Length)), g)

\* Lines 204-222: the fill call's error check, ReleaseBuffer, return.
ToUtf16_Finish ==
    /\ pc = "filled"
    /\ fn = "ToUtf16"
    /\ IF ToUtf16_FillFailed(result, utf16Length)
         THEN /\ pc' = "thrown"
              /\ thrownAt' = "fill"
              /\ utf16' = utf16
         ELSE /\ pc' = "returned"
              /\ thrownAt' = thrownAt
              /\ utf16' = ReleaseBuffer(buffer, ToUtf16_ReleaseLength(utf8Length, utf16Length))
    /\ UNCHANGED << fn, leg, arg0, utf8, utf16Length, utf8Length, capacity,
                    fillSize, buffer, result, codecCalls >>

Next ==
    \/ ToUtf8_Call
    \/ ToUtf8_CallBack
    \/ ToUtf8_Fill
    \/ ToUtf8_Finish
    \/ ToUtf16_Call
    \/ ToUtf16_CallBack
    \/ ToUtf16_Fill
    \/ ToUtf16_Finish

Spec == Init /\ [][Next]_vars

(***************************************************************************)
(* The codec as a collaborator whose fill call may report any count within *)
(* the buffer it was given (the environment-level anomaly of a fill that   *)
(* disagrees with the measure): what the wrapper does with such a report.  *)
(***************************************************************************)
ToUtf8_FillAnyReport ==
    \E g \in UninitUnits :
      \E r \in 0..ToUtf8_FillSize(utf16Length, utf8Length) :
        LET f == WideCharToMultiByte(ToUtf8_kFlags, utf16, utf16Length,
                                     ToUtf8_FillSize(utf16Length, utf8Length))
        IN  ToUtf8_FillWith([ret |-> r, written |-> SubSeq(f.written, 1, r)], g)

ToUtf16_FillAnyReport ==
    \E g \in UninitUnits :
      \E r \in 0..ToUtf16_FillSize(utf8Length, utf16Length) :
        LET f == MultiByteToWideChar(ToUtf16_kFlags, utf8, utf8Length,
                                     ToUtf16_FillSize(utf8Length, utf16Length))
        IN  ToUtf16_FillWith([ret |-> r, written |-> SubSeq(f.written, 1, r)], g)

NextAnyReport ==
    \/ Next
    \/ ToUtf8_FillAnyReport
    \/ ToUtf16_FillAnyReport

SpecAnyReport == Init /\ [][NextAnyReport]_vars

(***************************************************************************)
(* Vocabulary of the properties.                                           *)
(***************************************************************************)
\* The call has ended, by return or by throw.
Final == pc \in { "returned", "thrown" }

\* The length the measure call returned.
Measured == IF fn = "ToUtf8" THEN utf8Length ELSE utf16Length

\* Every high surrogate is immediately followed by a low surrogate and every
\* low surrogate immediately preceded by a high one.
WellFormedUtf16(s) ==
    \A i \in 1..Len(s) :
        /\ IsHighSurrogate(s[i]) => (i < Len(s) /\ IsLowSurrogate(s[i + 1]))
        /\ IsLowSurrogate(s[i]) => (i > 1 /\ IsHighSurrogate(s[i - 1]))

\* The n bytes of u from position i are one well-formed UTF-8 byte sequence
\* (the byte ranges of the Unicode standard, table 3-7).
WellFormedSequenceAt(u, i, n) ==
    LET b == u[i]
        In(j, lo, hi) == u[j] \in lo..hi
    IN  /\ i + n - 1 <= Len(u)
        /\ \/ n = 1 /\ b \in 0..127
           \/ n = 2 /\ b \in 194..223 /\ In(i + 1, 128, 191)
           \/ /\ n = 3
              /\ \/ b = 224 /\ In(i + 1, 160, 191)
                 \/ b \in 225..236 /\ In(i + 1, 128, 191)
                 \/ b = 237 /\ In(i + 1, 128, 159)
                 \/ b \in 238..239 /\ In(i + 1, 128, 191)
              /\ In(i + 2, 128, 191)
           \/ /\ n = 4
              /\ \/ b = 240 /\ In(i + 1, 144, 191)
                 \/ b \in 241..243 /\ In(i + 1, 128, 191)
                 \/ b = 244 /\ In(i + 1, 128, 143)
              /\ In(i + 2, 128, 191)
              /\ In(i + 3, 128, 191)

RECURSIVE WellFormedUtf8From(_, _)
WellFormedUtf8From(u, i) ==
    \/ i > Len(u)
    \/ \E n \in 1..4 : WellFormedSequenceAt(u, i, n) /\ WellFormedUtf8From(u, i + n)

WellFormedUtf8(u) == WellFormedUtf8From(u, 1)

RECURSIVE ExpectedUtf8LengthFrom(_, _)
\* 1 byte up to U+007F, 2 up to U+07FF, 3 up to U+FFFF, and 4 for a surrogate
\* pair (counted at its high surrogate).
ExpectedUtf8LengthFrom(s, i) ==
    IF i > Len(s) THEN 0
    ELSE (IF s[i] <= 127 THEN 1
          ELSE IF s[i] <= 2047 THEN 2
          ELSE IF IsHighSurrogate(s[i]) THEN 4
          ELSE IF IsLowSurrogate(s[i]) THEN 0
          ELSE 3) + ExpectedUtf8LengthFrom(s, i + 1)

\* Code points of a well-formed UTF-8 string: its non-continuation bytes.
CodePointCount(u) == Cardinality({ i \in 1..Len(u) : ~IsContinuation(u[i]) })

\* Its code points above U+FFFF: the lead bytes of 4-byte sequences.
SupplementaryCount(u) == Cardinality({ i \in 1..Len(u) : u[i] >= 240 })

(***************************************************************************)
(* Properties.                                                             *)
(***************************************************************************)

\* C1: for every well-formed UTF-16 string s, ToUtf8(s) returns (does not
\* throw), and ToUtf16 called on what it returned returns s again, code unit
\* for code unit and with the same length.
RoundTripUtf16 ==
    /\ (fn = "ToUtf8" /\ leg = 1 /\ WellFormedUtf16(utf16) /\ Final)
          => pc = "returned"
    /\ (fn = "ToUtf16" /\ leg = 2 /\ WellFormedUtf16(arg0) /\ Final)
          => /\ pc = "returned"
             /\ Len(utf16) = Len(arg0)
             /\ \A i \in 1..Len(arg0) : utf16[i] = arg0[i]

\* The kanji followed by U+1F600 went through ToUtf8 and back through ToUtf16.
RoundTripUtf16Witness ==
    /\ fn = "ToUtf16" /\ leg = 2 /\ pc = "returned"
    /\ arg0 = << 23398, 55357, 56832 >>
    /\ utf8 = << 229, 173, 166, 240, 159, 152, 128 >>
    /\ utf16 = arg0

\* C2: for every well-formed UTF-8 string u, ToUtf16(u) returns, and ToUtf8
\* called on what it returned returns u again, byte for byte.
RoundTripUtf8 ==
    /\ (fn = "ToUtf16" /\ leg = 1 /\ WellFormedUtf8(utf8) /\ Final)
          => pc = "returned"
    /\ (fn = "ToUtf8" /\ leg = 2 /\ WellFormedUtf8(arg0) /\ Final)
          => /\ pc = "returned"
             /\ Len(utf8) = Len(arg0)
             /\ \A i \in 1..Len(arg0) : utf8[i] = arg0[i]

\* U+10000 (F0 90 80 80) went through ToUtf16 and back through ToUtf8.
RoundTripUtf8Witness ==
    /\ fn = "ToUtf8" /\ leg = 2 /\ pc = "returned"
    /\ arg0 = << 240, 144, 128, 128 >>
    /\ utf16 = << 55296, 56320 >>
    /\ utf8 = arg0

\* C3: a call of either function on an empty string has returned an empty
\* string, without a throw and without any codec call (neither the measure
\* call nor the fill call), in the step that entered it.
EmptyFastPath ==
    /\ (fn = "ToUtf8" /\ Len(utf16) = 0)
          => pc = "returned" /\ utf8 = << >> /\ codecCalls = 0 /\ thrownAt = "none"
    /\ (fn = "ToUtf16" /\ Len(utf8) = 0)
          => pc = "returned" /\ utf16 = << >> /\ codecCalls = 0 /\ thrownAt = "none"

\* ToUtf8 of the empty string returned, and ToUtf16 of its (empty) result
\* returned: both fast paths were taken.
EmptyFastPathWitness ==
    /\ fn = "ToUtf16" /\ leg = 2 /\ pc = "returned"
    /\ arg0 = << >> /\ utf8 = << >> /\ utf16 = << >>
    /\ codecCalls = 0

\* C4: for every well-formed non-empty UTF-16 string, ToUtf8 returns a
\* well-formed UTF-8 string whose length is 1 byte per code point up to
\* U+007F, 2 up to U+07FF, 3 up to U+FFFF and 4 per surrogate pair; the single
\* unit 5B66 gives the bytes E5 AD A6.
StandardUtf8Length ==
    (fn = "ToUtf8" /\ Len(utf16) > 0 /\ WellFormedUtf16(utf16) /\ Final)
      => /\ pc = "returned"
         /\ Len(utf8) = ExpectedUtf8LengthFrom(utf16, 1)
         /\ WellFormedUtf8(utf8)
         /\ CodePointCount(utf8) + SupplementaryCount(utf8) = Len(utf16)
         /\ utf16 = << 23398 >> => utf8 = << 229, 173, 166 >>

\* ToUtf8 returned E5 AD A6 for the kanji (TestStringLengths).
StandardUtf8LengthWitness ==
    /\ fn = "ToUtf8" /\ leg = 1 /\ pc = "returned"
    /\ utf16 = << 23398 >>
    /\ utf8 = << 229, 173, 166 >>

\* C5: for every UTF-16 string with an unpaired surrogate, ToUtf8 throws and
\* returns nothing (no output with U+FFFD or anything else in its place).
UnpairedSurrogateRejected ==
    (fn = "ToUtf8" /\ ~WellFormedUtf16(utf16))
      => pc = "thrown" /\ thrownAt # "none" /\ utf8 = << >>

\* ToUtf8 threw on the lone high surrogate D800.
UnpairedSurrogateRejectedWitness ==
    fn = "ToUtf8" /\ utf16 = << 55296 >> /\ pc = "thrown"

\* C6: for every ill-formed UTF-8 string, ToUtf16 throws after the measure
\* call (its only codec call) and returns nothing.
IllFormedUtf8Rejected ==
    (fn = "ToUtf16" /\ ~WellFormedUtf8(utf8))
      => /\ pc = "thrown"
         /\ thrownAt = "measure"
         /\ codecCalls = 1
         /\ utf16 = << >>

\* ToUtf16 threw on the overlong encoding C0 80.
IllFormedUtf8RejectedWitness ==
    fn = "ToUtf16" /\ utf8 = << 192, 128 >> /\ pc = "thrown"

BufferSizedToMeasure ==
    (codecCalls = 2 /\ pc \in { "filled", "returned", "thrown" })
      => capacity = Measured

\* C9 as stated: the measured length has one slot per code point, and the
\* length of the returned string is the count the fill call wrote.
OneSlotPerCodePoint ==
    (fn = "ToUtf16" /\ pc = "returned" /\ codecCalls = 2)
      => /\ utf16Length = CodePointCount(utf8)
         /\ Len(utf16) = result

\* C9 as amended: the measured length counts UTF-16 code units, two for each
\* code point above U+FFFF, which is returned as a high surrogate followed by a
\* low one; the length of the returned string, the measured length and the
\* count the fill call wrote are equal.
SurrogatePairAccounting ==
    (fn = "ToUtf16" /\ pc = "returned" /\ codecCalls = 2)
      => /\ utf16Length = CodePointCount(utf8) + SupplementaryCount(utf8)
         /\ Len(utf16) = result
         /\ result = utf16Length
         /\ WellFormedUtf16(utf16)
         /\ Cardinality({ i \in 1..Len(utf16) : IsHighSurrogate(utf16[i]) })
              = SupplementaryCount(utf8)

\* ToUtf16 returned the pair D83D DE00 for U+1F600, measured as 2.
SurrogatePairAccountingWitness ==
    /\ fn = "ToUtf16" /\ pc = "returned"
    /\ utf8 = << 240, 159, 152, 128 >>
    /\ utf16 = << 55357, 56832 >>
    /\ utf16Length = 2

\* C10: in ToUtf16, a measured length that passed the error check is at least
\* 1 and at most the number of input bytes, and the size given to the fill
\* call, what the fill call wrote and reported, and the length of the returned
\* string are all within the capacity asked of GetBuffer.
ToUtf16BufferSafety ==
    (fn = "ToUtf16" /\ pc \in { "measured", "filled", "returned" } /\ codecCalls >= 1)
      => /\ utf16Length >= 1
         /\ utf16Length <= utf8Length
         /\ pc # "measured"
              => /\ capacity = utf8Length
                 /\ fillSize <= capacity
                 /\ result <= capacity
                 /\ Len(buffer) <= capacity
                 /\ Len(utf16) <= capacity

\* ToUtf16 returned the 2 code units of U+10000 from a buffer of 4 cells.
ToUtf16BufferSafetyWitness ==
    /\ fn = "ToUtf16" /\ pc = "returned" /\ codecCalls = 2
    /\ utf8 = << 240, 144, 128, 128 >>
    /\ capacity = 4 /\ Len(buffer) = 4
    /\ utf16Length = 2 /\ Len(utf16) = 2

=============================================================================
